---------------------------- MODULE Spec2Model ----------------------------
(***************************************************************************)
(* Model of paramdex-rs: the field-definition line parser                  *)
(* (deserialize/field_def_parse.rs), the PARAMDEF document deserializer    *)
(* (deserialize/mod.rs) and the Paramdex registry (lib.rs).                *)
(*                                                                         *)
(* Text is a sequence of characters; a character is a one-character        *)
(* string, except that a non-ASCII code point is written by its name       *)
(* ("U+FF47") and occupies Utf8Len bytes.  Option<T> is a sequence of      *)
(* length 0 (None) or 1 (Some).  A call ends in one of three ways: Ok,     *)
(* Err (a returned error value) or Panic (the thread unwinds: expect,      *)
(* unwrap, unreachable).                                                   *)
(***************************************************************************)
EXTENDS Integers, Sequences, FiniteSets, TLC

VARIABLES
    line,         \* SpecField: the input of parse_param_field_def
    parts,        \* SpecField: the pieces the line was written from (history)
    fieldRes,     \* SpecField: its outcome, or Pending before the call
    doc,          \* SpecDef: the input of deserialize_def
    defRes,       \* SpecDef: its outcome, or Pending before the call
    definitions,  \* SpecDex: Paramdex.definitions, key -> Option<ParamDef>
    inserted,     \* SpecDex: history of the definitions passed to insert
    ret,          \* SpecDex: what the last insert / get_param_def returned
    batch,        \* SpecDex: the input sequence of the last deserialize_all
    batchRes      \* SpecDex: the outcome of the last deserialize_all

vars == <<line, parts, fieldRes, doc, defRes, definitions, inserted, ret, batch, batchRes>>

None == <<>>
Some(x) == <<x>>
Pending == [kind |-> "Pending"]
Ok(v) == [kind |-> "Ok", val |-> v]
Err(e) == [kind |-> "Err", err |-> e]
Panic(m) == [kind |-> "Panic", msg |-> m]
\* Body applied to value, with value computed once (let x = value; body).
Bind(value, Body(_)) == CHOOSE y \in {Body(x) : x \in {value}} : TRUE
\* No deserialize_all call yet.
NoBatch == [result |-> Pending, parsed |-> 0]

----------------------------------------------------------------------------
(* Characters and std's FromStr conversions                                *)

WS == {" ", "\t"}
Digit == {"0", "1", "2", "3", "4", "5", "6", "7", "8", "9"}
NonAscii == {"U+FF47"}

\* s[i..j] clamped to the text: empty when the range is, cut at the end of s.
Slice(s, i, j) ==
    LET hi == IF j > Len(s) THEN Len(s) ELSE j
    IN  IF i > hi \/ i < 1 THEN <<>> ELSE SubSeq(s, i, hi)

\* Bytes a character occupies in the UTF-8 buffer (U+FF47 encodes as EF BD 87).
Utf8Len(c) == IF c \in NonAscii THEN 3 ELSE 1

RECURSIVE ByteLen(_)
ByteLen(s) == IF s = <<>> THEN 0 ELSE Utf8Len(Head(s)) + ByteLen(Tail(s))

\* Byte offset (0-based) of the character at 1-based index i.
ByteOffset(s, i) == ByteLen(Slice(s, 1, i - 1))

AllDigits(s) == \A k \in 1..Len(s) : s[k] \in Digit

RECURSIVE StripZeros(_)
StripZeros(s) ==
    IF Len(s) > 1 /\ Head(s) = "0" THEN StripZeros(Tail(s)) ELSE s

DigitChars == <<"0", "1", "2", "3", "4", "5", "6", "7", "8", "9">>
DigitVal(c) == (CHOOSE n \in 1..Len(DigitChars) : DigitChars[n] = c) - 1

RECURSIVE LexLeq(_, _)
LexLeq(a, b) ==
    IF a = <<>> THEN TRUE
    ELSE IF Head(a) # Head(b) THEN DigitVal(Head(a)) < DigitVal(Head(b))
    ELSE LexLeq(Tail(a), Tail(b))

\* a <= b for canonical (no leading zero) decimal numerals.
NumLeq(a, b) == Len(a) < Len(b) \/ (Len(a) = Len(b) /\ LexLeq(a, b))

U8Max == <<"2", "5", "5">>
U32Max == <<"4", "2", "9", "4", "9", "6", "7", "2", "9", "5">>
\* usize::MAX on a 64-bit target.
UsizeMax == <<"1", "8", "4", "4", "6", "7", "4", "4", "0", "7",
              "3", "7", "0", "9", "5", "5", "1", "6", "1", "5">>

\* <unsigned integer>::from_str: an optional "+", then one or more decimal
\* digits, no surrounding whitespace; Err on empty, on a non-digit and on a
\* value above max.  The value is the canonical decimal numeral.
UIntFromStr(text, max) ==
    LET body == IF text # <<>> /\ Head(text) = "+" THEN Tail(text) ELSE text
    IN  IF body = <<>> \/ ~AllDigits(body) THEN None
        ELSE IF NumLeq(StripZeros(body), max) THEN Some(StripZeros(body))
        ELSE None

RECURSIVE StripTrailingZeros(_)
StripTrailingZeros(s) ==
    IF s # <<>> /\ s[Len(s)] = "0"
    THEN StripTrailingZeros(Slice(s, 1, Len(s) - 1)) ELSE s

DotAt(s) == IF \E k \in 1..Len(s) : s[k] = "."
            THEN CHOOSE k \in 1..Len(s) : s[k] = "." /\ \A j \in 1..(k - 1) : s[j] # "."
            ELSE Len(s) + 1

\* f64::from_str on plain decimal text: an optional sign, digits, an optional
\* "." and digits, at least one digit in all.  The value is kept as sign,
\* integer part and fraction part in canonical form (so "-1" = "-1.0").
\* Exponents and the inf/nan words never occur in the modelled inputs.
F64FromStr(text) ==
    LET signed == text # <<>> /\ Head(text) \in {"+", "-"}
        body == IF signed THEN Tail(text) ELSE text
        d == DotAt(body)
        ip == Slice(body, 1, d - 1)
        fp == Slice(body, d + 1, Len(body))
        int == IF ip = <<>> THEN <<"0">> ELSE StripZeros(ip)
        frac == StripTrailingZeros(fp)
    IN  IF ~AllDigits(ip) \/ ~AllDigits(fp) \/ (ip = <<>> /\ fp = <<>>) THEN None
        ELSE Some([neg |-> signed /\ Head(text) = "-" /\ ~(int = <<"0">> /\ frac = <<>>),
                   int |-> int, frac |-> frac])

\* bool::from_str accepts exactly "true" and "false".
BoolFromStr(text) ==
    IF text = <<"t", "r", "u", "e">> THEN Some(TRUE)
    ELSE IF text = <<"f", "a", "l", "s", "e">> THEN Some(FALSE)
    ELSE None

\* Integers are held as canonical decimal numerals: usize and u32 values do
\* not fit the checker's integers.
U8FromStr(text) == UIntFromStr(text, U8Max)
UsizeFromStr(text) == UIntFromStr(text, UsizeMax)
U32FromStr(text) == UIntFromStr(text, U32Max)

----------------------------------------------------------------------------
(* The tokenizer: the grammar deserialize/fielddef.pest                    *)

T_s8 == <<"s", "8">>
T_u8 == <<"u", "8">>
T_s16 == <<"s", "1", "6">>
T_u16 == <<"u", "1", "6">>
T_s32 == <<"s", "3", "2">>
T_u32 == <<"u", "3", "2">>
T_f32 == <<"f", "3", "2">>
T_f64 == <<"f", "6", "4">>
T_a32 == <<"a", "3", "2">>
T_angle32 == <<"a", "n", "g", "l", "e", "3", "2">>
T_b32 == <<"b", "3", "2">>
T_dummy8 == <<"d", "u", "m", "m", "y", "8">>
T_fixstr == <<"f", "i", "x", "s", "t", "r">>
T_fixstrW == <<"f", "i", "x", "s", "t", "r", "W">>

SimpleTypeLits ==
    {T_s8, T_u8, T_s16, T_u16, T_s32, T_u32, T_f32, T_f64, T_a32, T_angle32, T_b32}
FixstrTypeLits == {T_fixstr, T_fixstrW}

At(s, i) == IF i \in 1..Len(s) THEN s[i] ELSE "EOI"
IsNameChar(c) == c # "EOI" /\ c \notin WS /\ c \notin {":", "[", "="}

RECURSIVE SkipWS(_, _)
SkipWS(s, i) == IF At(s, i) \in WS THEN SkipWS(s, i + 1) ELSE i

RECURSIVE NameEnd(_, _)
NameEnd(s, i) == IF IsNameChar(At(s, i)) THEN NameEnd(s, i + 1) ELSE i

RECURSIVE DigitsEnd(_, _)
DigitsEnd(s, i) == IF At(s, i) \in Digit THEN DigitsEnd(s, i + 1) ELSE i

RECURSIVE NonWSEnd(_, _)
NonWSEnd(s, i) ==
    IF At(s, i) # "EOI" /\ At(s, i) \notin WS THEN NonWSEnd(s, i + 1) ELSE i

\* FLOAT: an optional "-", digits, optionally "." and digits.  The index after
\* the match, or i when there is none.
FloatEnd(s, i) ==
    LET j == IF At(s, i) = "-" THEN i + 1 ELSE i
        k == DigitsEnd(s, j)
        m == IF At(s, k) = "." THEN DigitsEnd(s, k + 1) ELSE k
    IN  IF k = j THEN i
        ELSE IF At(s, k) = "." /\ m > k + 1 THEN m
        ELSE k

Span(s, i, j) == [start |-> ByteOffset(s, i), end |-> ByteOffset(s, j)]

\* A pair of the token tree: its rule, the text it covers and its byte span.
Pair(rule, s, i, j, text) ==
    [rule |-> rule, text |-> text, span |-> Span(s, i, j)]

\* TYPE WS: the literal that starts the line and is followed by whitespace.
TypeTokens(s, lits) ==
    {t \in lits : Slice(s, 1, Len(t)) = t /\ At(s, Len(t) + 1) \in WS}

\* (":" UINT)? at i: zero or one suffix_bitsize pair, and the index after it.
OptBitsize(s, i) ==
    LET k == DigitsEnd(s, i + 1)
    IN  IF At(s, i) = ":" /\ k > i + 1
        THEN [sufs |-> <<Pair("suffix_bitsize", s, i, k, Slice(s, i + 1, k - 1))>>, next |-> k]
        ELSE [sufs |-> <<>>, next |-> i]

\* ("[" UINT "]")? at i.
OptArray(s, i) ==
    LET k == DigitsEnd(s, i + 1)
    IN  IF At(s, i) = "[" /\ k > i + 1 /\ At(s, k) = "]"
        THEN [sufs |-> <<Pair("suffix_array", s, i, k + 1, Slice(s, i + 1, k - 1))>>,
              next |-> k + 1]
        ELSE [sufs |-> <<>>, next |-> i]

\* (WS? "=" WS? FLOAT)? at i.
OptDefault(s, i) ==
    LET e == SkipWS(s, i)
        f == SkipWS(s, e + 1)
        k == FloatEnd(s, f)
    IN  IF At(s, e) = "=" /\ k > f
        THEN [sufs |-> <<Pair("def_default_suffix", s, e, k, Slice(s, f, k - 1))>>, next |-> k]
        ELSE [sufs |-> <<>>, next |-> i]

\* The token tree of a line: the rule that matched, the type token, the name
\* and the suffix pairs in the order they stand in the line.
Tree(rule, type, name, sufs, span) ==
    [rule |-> rule, type |-> type, name |-> name, suffixes |-> sufs, span |-> span]

\* def_simple := TYPE WS NAME (":" UINT)? (WS? "=" WS? FLOAT)? EOI
TrySimple(s) ==
    LET ts == TypeTokens(s, SimpleTypeLits)
        t == CHOOSE x \in ts : TRUE
        n == SkipWS(s, Len(t) + 1)
        ne == NameEnd(s, n)
        b == OptBitsize(s, ne)
        d == OptDefault(s, b.next)
    IN  IF ts # {} /\ ne > n /\ d.next = Len(s) + 1
        THEN Some(Tree("def_simple", t, Slice(s, n, ne - 1), b.sufs \o d.sufs,
                       Span(s, 1, Len(s) + 1)))
        ELSE None

\* def_dummy := "dummy8" WS NAME ("[" UINT "]" | ":" UINT)? (WS? "=" WS? FLOAT)? EOI
TryDummy(s) ==
    LET ts == TypeTokens(s, {T_dummy8})
        n == SkipWS(s, Len(T_dummy8) + 1)
        ne == NameEnd(s, n)
        a == OptArray(s, ne)
        b == IF a.sufs # <<>> THEN a ELSE OptBitsize(s, ne)
        d == OptDefault(s, b.next)
    IN  IF ts # {} /\ ne > n /\ d.next = Len(s) + 1
        THEN Some(Tree("def_dummy", T_dummy8, Slice(s, n, ne - 1), b.sufs \o d.sufs,
                       Span(s, 1, Len(s) + 1)))
        ELSE None

\* def_fixstr := ("fixstr" | "fixstrW") WS NAME "[" UINT "]" EOI
TryFixstr(s) ==
    LET ts == TypeTokens(s, FixstrTypeLits)
        t == CHOOSE x \in ts : TRUE
        n == SkipWS(s, Len(t) + 1)
        ne == NameEnd(s, n)
        a == OptArray(s, ne)
    IN  IF ts # {} /\ ne > n /\ a.sufs # <<>> /\ a.next = Len(s) + 1
        THEN Some(Tree("def_fixstr", t, Slice(s, n, ne - 1), a.sufs,
                       Span(s, 1, Len(s) + 1)))
        ELSE None

\* def_unrecog: any other leading token, captured with its span.
TryUnrecog(s) ==
    LET e == NonWSEnd(s, 1)
    IN  IF e > 1
        THEN Some(Tree("def_unrecog", Slice(s, 1, e - 1), <<>>, <<>>, Span(s, 1, e)))
        ELSE None

\* DefParser::parse(Rule::def, input): the first alternative that matches the
\* whole line, or pest's own error when none does.
tokenize(s) ==
    Bind(TryFixstr(s) \o TryDummy(s) \o TrySimple(s) \o TryUnrecog(s),
         LAMBDA matches :
            IF matches # <<>> THEN Ok(matches[1])
            ELSE Err([variant |-> "ParseError", message |-> "pest", span |-> Span(s, 1, 1)]))

----------------------------------------------------------------------------
(* The field-definition interpreter (field_def_parse.rs)                   *)

\* pest::error::Error::new_from_span(CustomError { message }, span).into()
CustomError(message, span) ==
    [variant |-> "ParseError", message |-> message, span |-> span]

BitSizeMessage == "Bit size not supported on this type"
UnrecognizedMessage == "Unrecognized type"

\* Mutant of supports_bit_size: u32 left out of the match.
supports_bit_size_NoU32(field_type) == field_type.tag \in {"u8", "u16"}

\* ParamFieldType::supports_bit_size
supports_bit_size(field_type) == field_type.tag \in {"u8", "u16", "u32"}

\* ParamFieldType::set_bit_size on a type that supports it.
set_bit_size(field_type, new_bit_size) ==
    [field_type EXCEPT !.bit_size = Some(new_bit_size)]

\* Mutant of SimpleFieldType: the "angle32" alternative falls into the f32 arm.
SimpleFieldType_AngleAsF32(type) ==
    IF type = T_s8 THEN [tag |-> "s8"]
    ELSE IF type = T_u8 THEN [tag |-> "u8", bit_size |-> None]
    ELSE IF type = T_s16 THEN [tag |-> "s16"]
    ELSE IF type = T_u16 THEN [tag |-> "u16", bit_size |-> None]
    ELSE IF type = T_s32 THEN [tag |-> "s32"]
    ELSE IF type = T_u32 THEN [tag |-> "u32", bit_size |-> None]
    ELSE IF type = T_f32 \/ type = T_angle32 THEN [tag |-> "f32"]
    ELSE IF type = T_f64 THEN [tag |-> "f64"]
    ELSE IF type = T_a32 THEN [tag |-> "a32"]
    ELSE IF type = T_b32 THEN [tag |-> "b32"]
    ELSE [tag |-> "unreachable"]

\* The match on simple_field_type.as_str().
SimpleFieldType(type) ==
    IF type = T_s8 THEN [tag |-> "s8"]
    ELSE IF type = T_u8 THEN [tag |-> "u8", bit_size |-> None]
    ELSE IF type = T_s16 THEN [tag |-> "s16"]
    ELSE IF type = T_u16 THEN [tag |-> "u16", bit_size |-> None]
    ELSE IF type = T_s32 THEN [tag |-> "s32"]
    ELSE IF type = T_u32 THEN [tag |-> "u32", bit_size |-> None]
    ELSE IF type = T_f32 THEN [tag |-> "f32"]
    ELSE IF type = T_f64 THEN [tag |-> "f64"]
    ELSE IF type = T_a32 \/ type = T_angle32 THEN [tag |-> "a32"]
    ELSE IF type = T_b32 THEN [tag |-> "b32"]
    ELSE [tag |-> "unreachable"]

\* get_field_name: the name pair's text, owned.
get_field_name(tree) == tree.name

\* get_default: f64::from_str(..).expect("default str to f64")
get_default(suffix) ==
    LET v == F64FromStr(suffix.text)
    IN  IF v = None THEN Panic("default str to f64") ELSE Ok(v[1])

\* parse_pair::<usize> under get_array_size: usize::from_str(..).expect(..)
get_array_size(suffix) ==
    LET v == UsizeFromStr(suffix.text)
    IN  IF v = None THEN Panic("parse invalid") ELSE Ok(v[1])

\* parse_pair::<u8> under get_bitsize: u8::from_str(..).expect(..)
get_bitsize(suffix) ==
    LET v == U8FromStr(suffix.text)
    IN  IF v = None THEN Panic("parse invalid") ELSE Ok(v[1])

\* The bit-size arm of the def_simple suffix loop.
SimpleBitsize(compiled_field_def, suffix) ==
    LET bit_size == U8FromStr(suffix.text)
    IN  IF bit_size = None THEN Panic("number_str to u8")
        ELSE IF supports_bit_size(compiled_field_def.field_type)
        THEN Ok([compiled_field_def EXCEPT
                    !.field_type = set_bit_size(@, bit_size[1])])
        ELSE Err(CustomError(BitSizeMessage, suffix.span))

\* The default arm of the def_simple suffix loop.
SimpleDefault(compiled_field_def, suffix) ==
    LET default_val == get_default(suffix)
    IN  IF default_val.kind # "Ok" THEN default_val
        ELSE Ok([compiled_field_def EXCEPT !.default_value = Some(default_val.val)])

\* for suffix in inner { match suffix.as_rule() { .. } } of def_simple,
\* from suffix i on; a return or a panic inside the loop ends it.
RECURSIVE SimpleSuffixes(_, _, _)
SimpleSuffixes(sufs, i, compiled_field_def) ==
    IF i > Len(sufs) THEN Ok(compiled_field_def)
    ELSE Bind(IF sufs[i].rule = "suffix_bitsize"
              THEN SimpleBitsize(compiled_field_def, sufs[i])
              ELSE IF sufs[i].rule = "def_default_suffix"
              THEN SimpleDefault(compiled_field_def, sufs[i])
              ELSE Panic("unreachable"),
              LAMBDA step : IF step.kind # "Ok" THEN step
                            ELSE SimpleSuffixes(sufs, i + 1, step.val))

\* The Rule::def_simple arm.
ParseSimple(tree) ==
    SimpleSuffixes(tree.suffixes, 1,
                   [field_type |-> SimpleFieldType(tree.type),
                    name |-> get_field_name(tree),
                    default_value |-> None])

\* One turn of the def_dummy suffix loop on (dummy_length, default).
DummySuffix(acc, suffix) ==
    IF suffix.rule = "suffix_array" THEN
        LET n == get_array_size(suffix)
        IN  IF n.kind # "Ok" THEN n
            ELSE Ok([acc EXCEPT !.dummy_length = Some([tag |-> "Bytes", n |-> n.val])])
    ELSE IF suffix.rule = "suffix_bitsize" THEN
        LET n == get_bitsize(suffix)
        IN  IF n.kind # "Ok" THEN n
            ELSE Ok([acc EXCEPT !.dummy_length = Some([tag |-> "Bits", n |-> n.val])])
    ELSE IF suffix.rule = "def_default_suffix" THEN
        LET d == get_default(suffix)
        IN  IF d.kind # "Ok" THEN d
            ELSE Ok([acc EXCEPT !.default = Some(d.val)])
    ELSE Panic("unreachable")

RECURSIVE DummySuffixes(_, _, _)
DummySuffixes(sufs, i, acc) ==
    IF i > Len(sufs) THEN Ok(acc)
    ELSE Bind(DummySuffix(acc, sufs[i]),
              LAMBDA step : IF step.kind # "Ok" THEN step
                            ELSE DummySuffixes(sufs, i + 1, step.val))

\* The Rule::def_dummy arm.
ParseDummy(tree) ==
    Bind(DummySuffixes(tree.suffixes, 1, [dummy_length |-> None, default |-> None]),
         LAMBDA r :
            IF r.kind # "Ok" THEN r
            ELSE Ok([name |-> get_field_name(tree),
                     default_value |-> r.val.default,
                     field_type |-> [tag |-> "dummy8", length |-> r.val.dummy_length]]))

\* The Rule::def_fixstr arm.
ParseFixstr(tree) ==
    Bind(IF tree.suffixes = <<>> THEN Panic("suffix_array")
         ELSE IF tree.suffixes[1].rule # "suffix_array"
         THEN Panic("Rule is not suffix_array")
         ELSE get_array_size(tree.suffixes[1]),
         LAMBDA array_len :
            IF array_len.kind # "Ok" THEN array_len
            ELSE IF tree.type = T_fixstr
            THEN Ok([name |-> tree.name, default_value |-> None,
                     field_type |-> [tag |-> "fixstr", length |-> array_len.val]])
            ELSE IF tree.type = T_fixstrW
            THEN Ok([name |-> tree.name, default_value |-> None,
                     field_type |-> [tag |-> "fixstrW", length |-> array_len.val]])
            ELSE Panic("unreachable"))

\* The Rule::def_unrecog arm.
ParseUnrecog(tree) == Err(CustomError(UnrecognizedMessage, tree.span))

parse_param_field_def(input_str) ==
    Bind(tokenize(input_str),
         LAMBDA tokenized :
            IF tokenized.kind # "Ok" THEN tokenized
            ELSE Bind(tokenized.val,
                      LAMBDA inner :
                         IF inner.rule = "def_simple" THEN ParseSimple(inner)
                         ELSE IF inner.rule = "def_dummy" THEN ParseDummy(inner)
                         ELSE IF inner.rule = "def_fixstr" THEN ParseFixstr(inner)
                         ELSE IF inner.rule = "def_unrecog" THEN ParseUnrecog(inner)
                         ELSE Panic("unreachable")))

----------------------------------------------------------------------------
(* The document deserializer (deserialize/mod.rs)                          *)
(*                                                                         *)
(* A parsed document is a tree of nodes: an element has a tag, an optional *)
(* Def attribute and children; a text node has text.  Tags are strings,    *)
(* text values are character sequences.                                    *)

Element(tag, def, children) ==
    [kind |-> "element", tag |-> tag, def |-> def, children |-> children]
TextNode(text) == [kind |-> "text", text |-> text]

\* Node::tag_name().name(): the empty name for a node that is no element.
TagName(node) == IF node.kind = "element" THEN node.tag ELSE ""

\* Node::text(): a text node's own text; an element's first child when that
\* is a text node; otherwise nothing.
NodeText(node) ==
    IF node.kind = "text" THEN Some(node.text)
    ELSE IF node.children # <<>> /\ node.children[1].kind = "text"
    THEN Some(node.children[1].text)
    ELSE None

\* Node::attribute("Def")
DefAttribute(node) == IF node.kind = "element" THEN node.def ELSE None

\* HashMap<String, String>: a function from the keys present to their values.
EmptyMap == [k \in {} |-> <<>>]
MapInsert(map, key, value) ==
    [k \in DOMAIN map \cup {key} |-> IF k = key THEN value ELSE map[k]]
MapGet(map, key) == IF key \in DOMAIN map THEN Some(map[key]) ELSE None

PARAM_DEF_ROOT == "PARAMDEF"

MissingParamData(what) == [variant |-> "MissingParamData", arg |-> what]
XmlBlankElement(name) == [variant |-> "XmlBlankElement", arg |-> name]
XmlParsing == [variant |-> "XmlParsing"]
XmlParsingNumber == [variant |-> "XmlParsingNumber"]
XmlParsingBool == [variant |-> "XmlParsingBool"]
XmlParsingFloat == [variant |-> "XmlParsingFloat"]
ParsingDefString(e) == [variant |-> "ParsingDefString", arg |-> e]

\* get_or_error
get_or_error(map, key) ==
    IF key \in DOMAIN map THEN Ok(map[key]) ELSE Err(MissingParamData(key))

\* text.contains(word)
Contains(text, word) ==
    \E i \in 1..(Len(text) + 1) : Slice(text, i, i + Len(word) - 1) = word

W_Wrap == <<"W", "r", "a", "p">>
W_Lock == <<"L", "o", "c", "k">>

\* EditFlags::from_str
EditFlagsFromStr(text) ==
    Ok([wrap |-> Contains(text, W_Wrap), lock |-> Contains(text, W_Lock)])

\* From<bool> for ParamdefEndian and for ParamdefFormat
EndianFromBool(a) == IF a THEN "Big" ELSE "Little"
FormatFromBool(a) == IF a THEN "UTF16" ELSE "ShiftJIS"

\* ParamdefEndian::from_str, with the ? conversion of its error.
EndianFromStr(text) ==
    IF BoolFromStr(text) = None THEN Err(XmlParsingBool)
    ELSE Ok(EndianFromBool(BoolFromStr(text)[1]))

\* ParamdefFormat::from_str, with the ? conversion of its error.
FormatFromStr(text) ==
    IF BoolFromStr(text) = None THEN Err(XmlParsingBool)
    ELSE Ok(FormatFromBool(BoolFromStr(text)[1]))

\* field_config.get(key).map(|a| parse(a)).swap()? : Ok(None) when the key is
\* absent, Ok(Some(v)) when its value parses, Err(error) when it does not.
OptF64(map, key) ==
    IF key \notin DOMAIN map THEN Ok(None)
    ELSE IF F64FromStr(map[key]) = None THEN Err(XmlParsingFloat)
    ELSE Ok(F64FromStr(map[key]))

OptUsize(map, key) ==
    IF key \notin DOMAIN map THEN Ok(None)
    ELSE IF UsizeFromStr(map[key]) = None THEN Err(XmlParsingNumber)
    ELSE Ok(UsizeFromStr(map[key]))

OptEditFlags(map, key) ==
    IF key \notin DOMAIN map THEN Ok(None)
    ELSE Ok(Some(EditFlagsFromStr(map[key]).val))

\* Mutant of FieldConfig: a child without text is entered with the empty
\* text (unwrap_or_default in place of if let Some).
RECURSIVE FieldConfig_BlankAsEmpty(_, _, _)
FieldConfig_BlankAsEmpty(children, i, field_config) ==
    IF i > Len(children) THEN field_config
    ELSE FieldConfig_BlankAsEmpty(children, i + 1,
            MapInsert(field_config, TagName(children[i]),
                      IF NodeText(children[i]) # None THEN NodeText(children[i])[1]
                      ELSE <<>>))

\* The loop of parse_field_node over the field's children: a child without
\* text is skipped, a later child with the same tag replaces an earlier one.
RECURSIVE FieldConfig(_, _, _)
FieldConfig(children, i, field_config) ==
    IF i > Len(children) THEN field_config
    ELSE FieldConfig(children, i + 1,
            IF NodeText(children[i]) # None
            THEN MapInsert(field_config, TagName(children[i]), NodeText(children[i])[1])
            ELSE field_config)

\* ParamFieldDef::from_str(attr)? inside parse_field_node.
FieldDefFromStr(attr) ==
    Bind(parse_param_field_def(attr),
         LAMBDA r : IF r.kind = "Err" THEN Err(ParsingDefString(r.err)) ELSE r)

\* The ParamField struct literal of parse_field_node: its fields are
\* evaluated in the order written, the first ? that meets an Err returns it.
FieldStruct(field_config, field_def, edit_flags, minimum, maximum, increment, sort_id) ==
    IF field_def.kind # "Ok" THEN field_def
    ELSE IF edit_flags.kind # "Ok" THEN edit_flags
    ELSE IF minimum.kind # "Ok" THEN minimum
    ELSE IF maximum.kind # "Ok" THEN maximum
    ELSE IF increment.kind # "Ok" THEN increment
    ELSE IF sort_id.kind # "Ok" THEN sort_id
    ELSE Ok([field_def |-> field_def.val,
             display_name |-> MapGet(field_config, "DisplayName"),
             enum_tdf |-> MapGet(field_config, "Enum"),
             description |-> MapGet(field_config, "Description"),
             printf_format |-> MapGet(field_config, "DisplayFormat"),
             edit_flags |-> edit_flags.val,
             minimum |-> minimum.val,
             maximum |-> maximum.val,
             increment |-> increment.val,
             sort_id |-> sort_id.val])

parse_field_node(field_node) ==
    IF DefAttribute(field_node) = None THEN Err(MissingParamData("Field Def"))
    ELSE Bind(FieldConfig(field_node.children, 1, EmptyMap),
              LAMBDA field_config :
                 Bind(<<FieldDefFromStr(DefAttribute(field_node)[1]),
                        OptEditFlags(field_config, "EditFlags"),
                        OptF64(field_config, "Minimum"),
                        OptF64(field_config, "Maximum"),
                        OptF64(field_config, "Increment"),
                        OptUsize(field_config, "SortID")>>,
                      LAMBDA v : FieldStruct(field_config, v[1], v[2], v[3], v[4],
                                             v[5], v[6])))

\* for child in root.children(): the Fields child is kept (the last one
\* wins), every other child goes into root_config by its tag name; a child
\* without text ends the call with XmlBlankElement.
RECURSIVE RootChildren(_, _, _)
RootChildren(children, i, acc) ==
    IF i > Len(children) THEN Ok(acc)
    ELSE IF TagName(children[i]) = "Fields"
    THEN RootChildren(children, i + 1, [acc EXCEPT !.fields = Some(children[i])])
    ELSE IF NodeText(children[i]) = None
    THEN Err(XmlBlankElement(TagName(children[i])))
    ELSE RootChildren(children, i + 1,
            [acc EXCEPT !.root_config =
                MapInsert(@, TagName(children[i]), NodeText(children[i])[1])])

\* u32::from_str(get_or_error(&root_config, key)?)?
RootU32(root_config, key) ==
    IF key \notin DOMAIN root_config THEN get_or_error(root_config, key)
    ELSE IF U32FromStr(root_config[key]) = None THEN Err(XmlParsingNumber)
    ELSE Ok(U32FromStr(root_config[key])[1])

\* ParamdefEndian::from_str(get_or_error(&root_config, key)?)?
RootEndian(root_config, key) ==
    IF key \notin DOMAIN root_config THEN get_or_error(root_config, key)
    ELSE EndianFromStr(root_config[key])

\* ParamdefFormat::from_str(get_or_error(&root_config, key)?)?
RootFormat(root_config, key) ==
    IF key \notin DOMAIN root_config THEN get_or_error(root_config, key)
    ELSE FormatFromStr(root_config[key])

\* Mutant of ParamDefStruct: the two version numbers are taken before the
\* endianness and the string format.
ParamDefStruct_VersionsFirst(param_type, data_version, endian, string_format, format_version) ==
    IF param_type.kind # "Ok" THEN param_type
    ELSE IF data_version.kind # "Ok" THEN data_version
    ELSE IF format_version.kind # "Ok" THEN format_version
    ELSE IF endian.kind # "Ok" THEN endian
    ELSE IF string_format.kind # "Ok" THEN string_format
    ELSE Ok([param_type |-> param_type.val,
             data_version |-> data_version.val,
             endian |-> endian.val,
             string_format |-> string_format.val,
             format_version |-> format_version.val,
             fields |-> <<>>])

\* The ParamDef struct literal: the five root values in the order written,
\* the first ? that meets an Err returns it.
ParamDefStruct(param_type, data_version, endian, string_format, format_version) ==
    IF param_type.kind # "Ok" THEN param_type
    ELSE IF data_version.kind # "Ok" THEN data_version
    ELSE IF endian.kind # "Ok" THEN endian
    ELSE IF string_format.kind # "Ok" THEN string_format
    ELSE IF format_version.kind # "Ok" THEN format_version
    ELSE Ok([param_type |-> param_type.val,
             data_version |-> data_version.val,
             endian |-> endian.val,
             string_format |-> string_format.val,
             format_version |-> format_version.val,
             fields |-> <<>>])

\* Mutant of RootValues: the string format is read from a key of its own.
RootValues_FormatOwnKey(root_config) ==
    Bind(<<get_or_error(root_config, "ParamType"),
           RootU32(root_config, "DataVersion"),
           RootEndian(root_config, "BigEndian"),
           RootFormat(root_config, "Unicode"),
           RootU32(root_config, "FormatVersion")>>,
         LAMBDA v : ParamDefStruct(v[1], v[2], v[3], v[4], v[5]))

RootValues(root_config) ==
    Bind(<<get_or_error(root_config, "ParamType"),
           RootU32(root_config, "DataVersion"),
           RootEndian(root_config, "BigEndian"),
           RootFormat(root_config, "BigEndian"),
           RootU32(root_config, "FormatVersion")>>,
         LAMBDA v : ParamDefStruct(v[1], v[2], v[3], v[4], v[5]))

\* Mutant of PushFields: each field is put at the front of the vector.
RECURSIVE PushFields_Front(_, _, _)
PushFields_Front(children, i, fields) ==
    IF i > Len(children) THEN Ok(fields)
    ELSE Bind(parse_field_node(children[i]),
              LAMBDA f : IF f.kind # "Ok" THEN f
                         ELSE PushFields_Front(children, i + 1, <<f.val>> \o fields))

\* for node in fields_node.children() { fields.push(parse_field_node(node)?) }
RECURSIVE PushFields(_, _, _)
PushFields(children, i, fields) ==
    IF i > Len(children) THEN Ok(fields)
    ELSE Bind(parse_field_node(children[i]),
              LAMBDA f : IF f.kind # "Ok" THEN f
                         ELSE PushFields(children, i + 1, Append(fields, f.val)))

\* Mutant of AfterScan: the five root values are read before the Fields
\* container is looked for.
AfterScan_ValuesFirst(scan) ==
    IF scan.kind # "Ok" THEN scan
    ELSE Bind(RootValues(scan.val.root_config),
              LAMBDA paramdef :
                 IF paramdef.kind # "Ok" THEN paramdef
                 ELSE IF scan.val.fields = None THEN Err(MissingParamData("Fields"))
                 ELSE Bind(PushFields(scan.val.fields[1].children, 1, paramdef.val.fields),
                           LAMBDA fields :
                              IF fields.kind # "Ok" THEN fields
                              ELSE Ok([paramdef.val EXCEPT !.fields = fields.val])))

\* deserialize_def after the root tag check, on the outcome of the scan of
\* the root's children.
AfterScan(scan) ==
    IF scan.kind # "Ok" THEN scan
    ELSE IF scan.val.fields = None THEN Err(MissingParamData("Fields"))
    ELSE Bind(RootValues(scan.val.root_config),
              LAMBDA paramdef :
                 IF paramdef.kind # "Ok" THEN paramdef
                 ELSE Bind(PushFields(scan.val.fields[1].children, 1, paramdef.val.fields),
                           LAMBDA fields :
                              IF fields.kind # "Ok" THEN fields
                              ELSE Ok([paramdef.val EXCEPT !.fields = fields.val])))

\* Mutant of deserialize_def: the root tag is checked after the root's
\* children have been scanned.
deserialize_def_LateRootCheck(input) ==
    IF input.kind # "Xml" THEN Err(XmlParsing)
    ELSE Bind(RootChildren(input.root.children, 1,
                           [root_config |-> EmptyMap, fields |-> None]),
              LAMBDA scan :
                 IF scan.kind # "Ok" THEN scan
                 ELSE IF TagName(input.root) # PARAM_DEF_ROOT
                 THEN Err(MissingParamData("Invalid root element"))
                 ELSE AfterScan(scan))

deserialize_def(input) ==
    IF input.kind # "Xml" THEN Err(XmlParsing)
    ELSE IF TagName(input.root) # PARAM_DEF_ROOT
    THEN Err(MissingParamData("Invalid root element"))
    ELSE Bind(RootChildren(input.root.children, 1,
                           [root_config |-> EmptyMap, fields |-> None]),
              LAMBDA scan : AfterScan(scan))

----------------------------------------------------------------------------
(* The registry (lib.rs)                                                   *)

\* Paramdex::empty: no definitions.
empty == EmptyMap

\* Mutant of insert: an existing entry is kept (or_insert in place of insert).
insert_KeepFirst(defs, paramdef) ==
    [definitions |-> IF paramdef.param_type \in DOMAIN defs THEN defs
                     ELSE MapInsert(defs, paramdef.param_type, paramdef),
     ret |-> MapGet(defs, paramdef.param_type)]

\* Paramdex::insert: the map after HashMap::insert under the definition's
\* param_type, and the value it returns (the entry displaced, if any).
insert(defs, paramdef) ==
    [definitions |-> MapInsert(defs, paramdef.param_type, paramdef),
     ret |-> MapGet(defs, paramdef.param_type)]

\* Paramdex::get_param_def
get_param_def(defs, key) == MapGet(defs, key)

\* The loop of deserialize_all from document i on: deserialize_def(input)?
\* returns at the first document that fails, before the documents after it
\* are looked at.  parsed counts the documents deserialize_def was given.
RECURSIVE DeserializeLoop(_, _, _)
DeserializeLoop(inputs, i, paramdex) ==
    IF i > Len(inputs) THEN [result |-> Ok(paramdex), parsed |-> i - 1]
    ELSE Bind(deserialize_def(inputs[i]),
              LAMBDA d :
                 IF d.kind # "Ok" THEN [result |-> d, parsed |-> i]
                 ELSE DeserializeLoop(inputs, i + 1, insert(paramdex, d.val).definitions))

\* Paramdex::deserialize_all
deserialize_all(input_iter) == DeserializeLoop(input_iter, 1, EmptyMap)

----------------------------------------------------------------------------
(* Inputs of the field-definition parser                                   *)

MaxNameLen == 2

SeqsUpTo(S, n) == UNION {[1..k -> S] : k \in 0..n}

NameAlphabet == {"a", "3", "U+FF47"}
Names == SeqsUpTo(NameAlphabet, MaxNameLen) \ {<<>>}

T_unknown == <<"v", "e", "c", "3">>
TypeTokensIn == SimpleTypeLits \cup FixstrTypeLits \cup {T_dummy8, T_unknown}

UsizeOver == <<"1", "8", "4", "4", "6", "7", "4", "4", "0", "7",
               "3", "7", "0", "9", "5", "5", "1", "6", "1", "6">>
Numerals == {<<"3">>, <<"0", "7">>, <<"2", "5", "5">>, <<"2", "5", "6">>,
             UsizeMax, UsizeOver}

\* The length suffix of a line: none, ":" UINT or "[" UINT "]".
LengthCases ==
    {[kind |-> "none", num |-> <<>>]}
    \cup {[kind |-> "bits", num |-> n] : n \in Numerals}
    \cup {[kind |-> "array", num |-> n] : n \in Numerals}
LengthText(l) ==
    IF l.kind = "bits" THEN <<":">> \o l.num
    ELSE IF l.kind = "array" THEN <<"[">> \o l.num \o <<"]">>
    ELSE <<>>

\* Default suffixes as written, each with the f64 it denotes.
DefaultCases ==
    {[text |-> <<>>, value |-> None],
     [text |-> <<" ", "=", " ", "-", "3", ".", "0">>,
      value |-> Some([neg |-> TRUE, int |-> <<"3">>, frac |-> <<>>])],
     [text |-> <<" ", "=", " ", "0">>,
      value |-> Some([neg |-> FALSE, int |-> <<"0">>, frac |-> <<>>])],
     [text |-> <<"=", "-", "1">>,
      value |-> Some([neg |-> TRUE, int |-> <<"1">>, frac |-> <<>>])],
     [text |-> <<" ", "=", " ", "0", ".", "2", "5">>,
      value |-> Some([neg |-> FALSE, int |-> <<"0">>, frac |-> <<"2", "5">>])]}

\* A line written as TYPE, one space, NAME, length suffix, default suffix.
LineParts ==
    [type : TypeTokensIn, name : Names, length : LengthCases, default : DefaultCases]
MkLine(p) == p.type \o <<" ">> \o p.name \o LengthText(p.length) \o p.default.text
NoParts == [type |-> <<>>]

\* Lines that fit none of the well-formed shapes.
OddLines ==
    {<<>>, <<" ">>, T_u8, T_u8 \o <<" ">>,
     T_dummy8 \o <<" ", "a", "[", "3", "]", ":", "3">>,
     T_fixstr \o <<" ", "a", "[", "3", "]", ":", "3">>,
     T_u32 \o <<" ", "a", ":">>,
     T_u32 \o <<" ", "a", " ", "=", " ", "x">>,
     T_u16 \o <<"\t", " ", "a", ":", "3">>}

----------------------------------------------------------------------------
(* SpecField: parse_param_field_def applied to one line                    *)

NoDoc == [kind |-> "None"]

InitField ==
    /\ \/ \E p \in LineParts : line = MkLine(p) /\ parts = p
       \/ line \in OddLines /\ parts = NoParts
    /\ fieldRes = Pending
    /\ doc = NoDoc /\ defRes = Pending
    /\ definitions = EmptyMap /\ inserted = <<>> /\ ret = None
    /\ batch = <<>> /\ batchRes = NoBatch

ParseParamFieldDef ==
    /\ fieldRes = Pending
    /\ fieldRes' = parse_param_field_def(line)
    /\ UNCHANGED <<line, parts, doc, defRes, definitions, inserted, ret, batch, batchRes>>

NextField == ParseParamFieldDef

SpecField == InitField /\ [][NextField]_vars

----------------------------------------------------------------------------
(* Inputs of the document deserializer                                     *)

MaxFields == 2

Whitespace == TextNode(<<"\t">>)

\* <tag>text</tag>, and <tag/> for the text "blank".
Child(tag, text) ==
    IF text = "blank" THEN Element(tag, None, <<>>)
    ELSE Element(tag, None, <<TextNode(text)>>)

\* <Field Def="def"> with the metadata children given.
Field(def, meta) == Element("Field", Some(def), meta)

L_u8bits == T_u8 \o <<" ", "a", ":", "3">>
L_fixstr == T_fixstr \o <<" ", "U+FF47", "[", "0", "7", "]">>
L_dummy == T_dummy8 \o <<" ", "a", "[", "3", "]", " ", "=", " ", "0">>
L_unrecog == T_unknown \o <<" ", "a">>
L_s32bits == T_s32 \o <<" ", "a", ":", "3">>
L_overflow == T_u8 \o <<" ", "a", ":", "2", "5", "6">>

FieldNodes ==
    {Field(L_u8bits, <<Child("DisplayName", <<"n">>), Child("Minimum", <<"0", ".", "5">>),
                       Child("SortID", <<"3">>), Child("EditFlags", <<"W", "r", "a", "p">>)>>),
     Field(L_fixstr, <<>>),
     Field(L_dummy, <<Child("Minimum", "blank"), Child("Description", "blank")>>),
     Whitespace,
     Element("Field", None, <<Child("DisplayName", <<"n">>)>>),
     Field(L_unrecog, <<>>),
     Field(L_s32bits, <<Child("Maximum", <<"x">>)>>),
     Field(L_overflow, <<>>),
     Field(L_u8bits, <<Child("Increment", <<"x">>)>>),
     Field(L_fixstr, <<Child("SortID", <<"-", "1">>)>>)}

FieldSeqs == SeqsUpTo(FieldNodes, MaxFields)

V_true == <<"t", "r", "u", "e">>
V_false == <<"f", "a", "l", "s", "e">>
V_True == <<"T", "r", "u", "e">>
V_u32over == <<"4", "2", "9", "4", "9", "6", "7", "2", "9", "6">>

\* The root children other than Fields, each absent, blank or with a text.
RootKeys ==
    [ParamType : {"absent", "blank", <<"P">>},
     DataVersion : {"absent", "blank", <<"1">>, V_u32over},
     BigEndian : {"absent", "blank", V_true, V_false, V_True},
     FormatVersion : {"absent", "blank", <<"2">>, <<"-", "2">>}]

KeyChild(keys, tag) ==
    IF keys[tag] = "absent" THEN <<>> ELSE <<Child(tag, keys[tag])>>

KeyChildren(keys) ==
    KeyChild(keys, "ParamType") \o KeyChild(keys, "DataVersion")
    \o KeyChild(keys, "BigEndian") \o KeyChild(keys, "FormatVersion")

RECURSIVE Interleave(_)
Interleave(children) ==
    IF children = <<>> THEN <<Whitespace>>
    ELSE <<Whitespace, Head(children)>> \o Interleave(Tail(children))

\* The root's children: the Fields container (when there is one) before or
\* after the other children, with or without whitespace text between them.
Layout(keys, fields, fieldsFirst, pretty) ==
    LET f == IF fields = None THEN <<>> ELSE <<Element("Fields", None, fields[1])>>
        plain == IF fieldsFirst THEN f \o KeyChildren(keys) ELSE KeyChildren(keys) \o f
    IN  IF pretty THEN Interleave(plain) ELSE plain

XmlDoc(tag, children) == [kind |-> "Xml", root |-> Element(tag, None, children)]
Malformed == [kind |-> "Malformed"]

GoodKeys(type, endian) ==
    [ParamType |-> type, DataVersion |-> <<"1">>, BigEndian |-> endian,
     FormatVersion |-> <<"2">>]

\* Documents that vary the root, over a few Fields containers.
RootDocs ==
    {XmlDoc(tag, Layout(keys, fields, ff, pretty)) :
        tag \in {PARAM_DEF_ROOT, "PARAMS"}, keys \in RootKeys,
        fields \in {None, Some(<<>>), Some(<<Field(L_overflow, <<>>)>>),
                    Some(<<Element("Field", None, <<>>)>>)},
        ff \in BOOLEAN, pretty \in BOOLEAN}

\* Documents with a complete root, over every Fields container.
FieldDocs ==
    {XmlDoc(PARAM_DEF_ROOT, Layout(GoodKeys(type, endian), Some(fields), FALSE, FALSE)) :
        type \in {<<"P">>, <<"Q">>}, endian \in {V_true, V_false}, fields \in FieldSeqs}

\* Documents with a complete root and one more root child, Unicode, whose
\* text agrees or disagrees with BigEndian, over several version numbers.
FormatDocs ==
    {XmlDoc(PARAM_DEF_ROOT,
            Layout([ParamType |-> <<"P">>, DataVersion |-> dv, BigEndian |-> endian,
                    FormatVersion |-> fv], Some(<<>>), ff, FALSE)
            \o <<Child("Unicode", unicode)>>) :
        dv \in {<<"1">>, <<"2">>}, fv \in {<<"1">>, <<"2">>},
        endian \in {V_true, V_false, V_True}, unicode \in {V_true, V_false},
        ff \in BOOLEAN}

Docs == RootDocs \cup FieldDocs \cup FormatDocs \cup {Malformed}

----------------------------------------------------------------------------
(* SpecDef: deserialize_def applied to one document                        *)

InitDef ==
    /\ doc \in Docs
    /\ defRes = Pending
    /\ line = <<>> /\ parts = NoParts /\ fieldRes = Pending
    /\ definitions = EmptyMap /\ inserted = <<>> /\ ret = None
    /\ batch = <<>> /\ batchRes = NoBatch

DeserializeDef ==
    /\ defRes = Pending
    /\ defRes' = deserialize_def(doc)
    /\ UNCHANGED <<line, parts, fieldRes, doc, definitions, inserted, ret, batch, batchRes>>

NextDef == DeserializeDef

SpecDef == InitDef /\ [][NextDef]_vars

----------------------------------------------------------------------------
(* SpecDex: a Paramdex built by empty() or deserialize_all, then used      *)

MaxDocs == 3
MaxInserts == 3

D_P1 == XmlDoc(PARAM_DEF_ROOT, Layout(GoodKeys(<<"P">>, V_false), Some(<<>>), FALSE, FALSE))
D_P2 == XmlDoc(PARAM_DEF_ROOT,
               Layout(GoodKeys(<<"P">>, V_true), Some(<<Field(L_fixstr, <<>>)>>), FALSE, FALSE))
D_Q == XmlDoc(PARAM_DEF_ROOT,
              Layout(GoodKeys(<<"Q">>, V_false), Some(<<Field(L_u8bits, <<>>)>>), TRUE, FALSE))
D_BadRoot == XmlDoc("PARAMS", Layout(GoodKeys(<<"P">>, V_false), Some(<<>>), FALSE, FALSE))
D_NoFields == XmlDoc(PARAM_DEF_ROOT, Layout(GoodKeys(<<"Q">>, V_false), None, FALSE, FALSE))
D_Overflow == XmlDoc(PARAM_DEF_ROOT,
                     Layout(GoodKeys(<<"Q">>, V_false), Some(<<Field(L_overflow, <<>>)>>),
                            FALSE, FALSE))

BatchDocs == {D_P1, D_P2, D_Q, D_BadRoot, D_NoFields, D_Overflow}
Batches == SeqsUpTo(BatchDocs, MaxDocs)

\* The definitions a caller has at hand to insert.
InsertDefs == {deserialize_def(d).val : d \in {D_P1, D_P2, D_Q}}
Keys == {<<"P">>, <<"Q">>, <<"R">>}

NoCall == [op |-> "none"]

InitDex ==
    /\ definitions = empty
    /\ inserted = <<>> /\ ret = NoCall
    /\ batch = <<>> /\ batchRes = NoBatch
    /\ line = <<>> /\ parts = NoParts /\ fieldRes = Pending
    /\ doc = NoDoc /\ defRes = Pending

\* The Paramdex is in hand: made by empty(), or returned by deserialize_all.
InHand == batchRes.result.kind \in {"Pending", "Ok"}

\* let paramdex = Paramdex::deserialize_all(inputs), in place of empty().
DeserializeAll(inputs) ==
    /\ batchRes = NoBatch /\ inserted = <<>> /\ ret = NoCall
    /\ batch' = inputs
    /\ batchRes' = deserialize_all(inputs)
    /\ definitions' = IF batchRes'.result.kind = "Ok" THEN batchRes'.result.val
                      ELSE definitions
    /\ UNCHANGED <<inserted, ret, line, parts, fieldRes, doc, defRes>>

Insert(paramdef) ==
    /\ InHand /\ Len(inserted) < MaxInserts
    /\ definitions' = insert(definitions, paramdef).definitions
    /\ ret' = [op |-> "insert", key |-> paramdef.param_type,
               val |-> insert(definitions, paramdef).ret, before |-> definitions]
    /\ inserted' = Append(inserted, paramdef)
    /\ UNCHANGED <<batch, batchRes, line, parts, fieldRes, doc, defRes>>

GetParamDef(key) ==
    /\ InHand
    /\ ret' = [op |-> "get", key |-> key, val |-> get_param_def(definitions, key),
               before |-> definitions]
    /\ UNCHANGED <<definitions, inserted, batch, batchRes, line, parts, fieldRes, doc, defRes>>

NextDex ==
    \/ \E inputs \in Batches : DeserializeAll(inputs)
    \/ \E paramdef \in InsertDefs : Insert(paramdef)
    \/ \E key \in Keys : GetParamDef(key)

SpecDex == InitDex /\ [][NextDex]_vars

----------------------------------------------------------------------------
(* Claims about parse_param_field_def                                      *)

Returned == fieldRes # Pending
Written == parts # NoParts

FitsU8(num) == NumLeq(StripZeros(num), U8Max)
FitsUsize(num) == NumLeq(StripZeros(num), UsizeMax)

\* The byte span of the length suffix of a written line.
SuffixSpan(p) ==
    [start |-> ByteLen(p.type) + 1 + ByteLen(p.name),
     end |-> ByteLen(p.type) + 1 + ByteLen(p.name) + ByteLen(LengthText(p.length))]

\* The field type a simple TYPE token denotes.
Denoted ==
    {<<T_s8, [tag |-> "s8"]>>, <<T_u8, [tag |-> "u8", bit_size |-> None]>>,
     <<T_s16, [tag |-> "s16"]>>, <<T_u16, [tag |-> "u16", bit_size |-> None]>>,
     <<T_s32, [tag |-> "s32"]>>, <<T_u32, [tag |-> "u32", bit_size |-> None]>>,
     <<T_f32, [tag |-> "f32"]>>, <<T_f64, [tag |-> "f64"]>>,
     <<T_a32, [tag |-> "a32"]>>, <<T_angle32, [tag |-> "a32"]>>,
     <<T_b32, [tag |-> "b32"]>>}
DenotedBy(t) == (CHOOSE d \in Denoted : d[1] = t)[2]

\* A suffix numeral that overflows its target: a bit width above u8::MAX on a
\* simple or padding line, an array length above usize::MAX on a padding or
\* fixed-string line.
Overflows(p) ==
    \/ /\ p.length.kind = "bits" /\ ~FitsU8(p.length.num)
       /\ p.type \in SimpleTypeLits \cup {T_dummy8}
    \/ /\ p.length.kind = "array" /\ ~FitsUsize(p.length.num)
       /\ p.type \in FixstrTypeLits \cup {T_dummy8}

\* C2: a line whose bit-width numeral does not fit 8 bits, or whose array
\* length numeral does not fit pointer width, makes parse_param_field_def
\* return an Err value: it neither panics nor yields an in-range value.
C2_OverflowIsTypedError ==
    (Returned /\ Written /\ Overflows(parts)) => fieldRes.kind = "Err"

C2_Witness ==
    /\ Written /\ parts.type = T_u8 /\ parts.length = [kind |-> "bits", num |-> <<"2", "5", "6">>]
    /\ fieldRes.kind = "Panic"

\* C4: on a simple-type line TYPE NAME:N with N in range, with or without a
\* default suffix, u8/u16/u32 parse to that type with bit width N, and every
\* other simple type fails with the bit-size-unsupported error carrying the
\* span of the bit-width suffix.
C4_SimpleBitWidth ==
    (/\ Returned /\ Written /\ parts.type \in SimpleTypeLits
     /\ parts.length.kind = "bits" /\ FitsU8(parts.length.num))
    => IF parts.type \in {T_u8, T_u16, T_u32}
       THEN /\ fieldRes.kind = "Ok"
            /\ fieldRes.val.name = parts.name
            /\ fieldRes.val.field_type =
                 [tag |-> DenotedBy(parts.type).tag,
                  bit_size |-> Some(StripZeros(parts.length.num))]
       ELSE fieldRes = Err([variant |-> "ParseError",
                            message |-> "Bit size not supported on this type",
                            span |-> SuffixSpan(parts)])

C4_Witness ==
    /\ Written /\ parts.type = T_s32 /\ parts.default.text # <<>>
    /\ parts.length = [kind |-> "bits", num |-> <<"3">>]
    /\ "U+FF47" \in {parts.name[k] : k \in 1..Len(parts.name)}
    /\ fieldRes.kind = "Err"

\* C5: a simple-type line TYPE NAME without suffixes parses to the field type
\* TYPE denotes (a32 and angle32 both the angle type), the name verbatim,
\* bit width unset and no default value.
C5_SimplePlain ==
    (/\ Returned /\ Written /\ parts.type \in SimpleTypeLits
     /\ parts.length.kind = "none" /\ parts.default.text = <<>>)
    => fieldRes = Ok([field_type |-> DenotedBy(parts.type),
                      name |-> parts.name,
                      default_value |-> None])

C5_Witness ==
    /\ Written /\ parts.type = T_angle32 /\ parts.name = <<"U+FF47", "a">>
    /\ parts.length.kind = "none" /\ parts.default.text = <<>>
    /\ fieldRes.kind = "Ok" /\ fieldRes.val.field_type.tag = "a32"

\* The padding length a written length suffix denotes.
DummyLength(l) ==
    IF l.kind = "array" THEN Some([tag |-> "Bytes", n |-> StripZeros(l.num)])
    ELSE IF l.kind = "bits" THEN Some([tag |-> "Bits", n |-> StripZeros(l.num)])
    ELSE None

\* C6: every padding line dummy8 NAME with at most one length suffix and an
\* optional default parses to padding whose length is Bytes(N) for [N],
\* Bits(N) for :N and unset without a length suffix, with the default value
\* the parsed float when a default suffix is present and absent otherwise.
C6_DummyLength ==
    (Returned /\ Written /\ parts.type = T_dummy8)
    => fieldRes = Ok([name |-> parts.name,
                      default_value |-> parts.default.value,
                      field_type |-> [tag |-> "dummy8",
                                      length |-> DummyLength(parts.length)]])

\* C7: fixstr NAME[N] parses to the narrow and fixstrW NAME[N] to the wide
\* fixed string of length N, with name NAME and no default; a fixed-string
\* line with a bit-width or default suffix, or without the array suffix, is
\* not accepted.
C7_Fixstr ==
    (Returned /\ Written /\ parts.type \in FixstrTypeLits)
    => IF parts.length.kind = "array" /\ parts.default.text = <<>>
       THEN fieldRes = Ok([name |-> parts.name, default_value |-> None,
                           field_type |->
                             [tag |-> IF parts.type = T_fixstr THEN "fixstr" ELSE "fixstrW",
                              length |-> StripZeros(parts.length.num)]])
       ELSE fieldRes.kind # "Ok"

----------------------------------------------------------------------------
(* Claims about deserialize_def                                            *)

DefReturned == defRes # Pending

\* The children of the document's Fields container (the last one, if the
\* root has several).
FieldsOf(d) ==
    LET kids == d.root.children
        at == {i \in 1..Len(kids) : TagName(kids[i]) = "Fields"}
    IN  kids[CHOOSE i \in at : \A j \in at : j <= i].children

\* The document gets as far as its fields: the root tag, the root's children
\* and the five root values are all accepted.
ReachesFields(d) ==
    /\ d.kind = "Xml" /\ TagName(d.root) = PARAM_DEF_ROOT
    /\ LET scan == RootChildren(d.root.children, 1,
                                [root_config |-> EmptyMap, fields |-> None])
       IN  /\ scan.kind = "Ok" /\ scan.val.fields # None
           /\ RootValues(scan.val.root_config).kind = "Ok"

\* C8: deserialize_def returns a definition only when every child of the
\* Fields container parses; when a child fails, the call returns the error of
\* the first failing child in document order, and no definition.
C8_FirstFailingChild ==
    (DefReturned /\ ReachesFields(doc))
    => LET kids == FieldsOf(doc)
           out == [i \in 1..Len(kids) |-> parse_field_node(kids[i])]
           bad == {i \in 1..Len(kids) : out[i].kind # "Ok"}
           first == CHOOSE i \in bad : \A j \in bad : i <= j
       IN  IF bad = {} THEN defRes.kind = "Ok"
           ELSE /\ defRes.kind = "Err"
                /\ out[first].kind = "Err"
                /\ defRes.err = out[first].err

\* C9: on success the fields of the returned definition are, in document
\* order, exactly the fields parsed from the children of the Fields
\* container, one per child.
C9_FieldsInDocumentOrder ==
    (DefReturned /\ defRes.kind = "Ok")
    => LET kids == FieldsOf(doc)
       IN  /\ Len(defRes.val.fields) = Len(kids)
           /\ \A i \in 1..Len(kids) :
                parse_field_node(kids[i]) = Ok(defRes.val.fields[i])

C9_Witness ==
    /\ DefReturned /\ defRes.kind = "Ok"
    /\ Len(defRes.val.fields) = MaxFields
    /\ defRes.val.fields[1].field_def.field_type.tag = "dummy8"
    /\ defRes.val.fields[MaxFields].field_def.field_type.tag = "fixstr"

\* C10: a document whose root tag is not PARAMDEF fails with the invalid
\* root element error, whatever its root children, root values and fields.
C10_InvalidRootFirst ==
    (DefReturned /\ doc.kind = "Xml" /\ doc.root.tag # "PARAMDEF")
    => defRes = Err([variant |-> "MissingParamData", arg |-> "Invalid root element"])

C10_Witness ==
    /\ DefReturned /\ doc.kind = "Xml" /\ doc.root.tag # "PARAMDEF"
    /\ \E i \in 1..Len(doc.root.children) :
          /\ doc.root.children[i].kind = "element"
          /\ doc.root.children[i].children = <<>>
    /\ \A i \in 1..Len(doc.root.children) : TagName(doc.root.children[i]) # "Fields"
    /\ defRes.kind = "Err"

\* The document parses as XML and its root tag is PARAMDEF.
IsParamdef(d) == d.kind = "Xml" /\ TagName(d.root) = PARAM_DEF_ROOT

\* The root has a child with the tag Fields.
HasFields(d) ==
    \E i \in 1..Len(d.root.children) : TagName(d.root.children[i]) = "Fields"

\* The positions of the root's children, other than Fields, without text.
Textless(d) ==
    {i \in 1..Len(d.root.children) :
        /\ TagName(d.root.children[i]) # "Fields"
        /\ NodeText(d.root.children[i]) = None}

\* The tag of the first root child, other than Fields, without text.
FirstTextless(d) ==
    TagName(d.root.children[CHOOSE i \in Textless(d) : \A j \in Textless(d) : i <= j])

\* The text the root gives a key: that of the last child with the key's tag.
RootText(d, key) ==
    LET at == {i \in 1..Len(d.root.children) : TagName(d.root.children[i]) = key}
    IN  IF at = {} THEN None
        ELSE NodeText(d.root.children[CHOOSE i \in at : \A j \in at : j <= i])

\* C11 as stated: a document with the PARAMDEF root and no Fields container
\* fails with the missing-data error naming Fields, whichever of the other
\* root children and root values are present, absent or malformed.
C11_MissingFields ==
    (DefReturned /\ IsParamdef(doc) /\ ~HasFields(doc))
    => defRes = Err([variant |-> "MissingParamData", arg |-> "Fields"])

\* C11 as amended: a document with the PARAMDEF root and no Fields container
\* returns no definition; it fails with the blank-element error naming the
\* first root child without text when there is one, and otherwise with the
\* missing-data error naming Fields, whichever required root values are
\* present, absent or malformed.
C11_MissingFieldsUnlessBlank ==
    (DefReturned /\ IsParamdef(doc) /\ ~HasFields(doc))
    => IF Textless(doc) # {}
       THEN defRes = Err([variant |-> "XmlBlankElement", arg |-> FirstTextless(doc)])
       ELSE defRes = Err([variant |-> "MissingParamData", arg |-> "Fields"])

C11_Witness ==
    /\ DefReturned /\ IsParamdef(doc) /\ ~HasFields(doc) /\ Textless(doc) = {}
    /\ RootText(doc, "ParamType") = None
    /\ RootText(doc, "DataVersion") = Some(V_u32over)
    /\ RootText(doc, "BigEndian") = Some(V_True)
    /\ defRes = Err([variant |-> "MissingParamData", arg |-> "Fields"])

\* The required root keys, in the order the claim gives them.
RequiredKeys == <<"ParamType", "DataVersion", "BigEndian", "FormatVersion">>

\* No root child has the key's tag.
KeyAbsent(d, key) ==
    \A i \in 1..Len(d.root.children) : TagName(d.root.children[i]) # key

\* What is wrong with a required key, if anything: it is absent, or its text
\* is not a value of its type (a u32 for the two versions, true or false for
\* BigEndian; any text is a ParamType).
KeyFault(d, key) ==
    IF KeyAbsent(d, key) THEN Some([variant |-> "MissingParamData", arg |-> key])
    ELSE IF key = "ParamType" \/ RootText(d, key) = None THEN None
    ELSE IF key = "BigEndian"
    THEN IF RootText(d, key)[1] \in {V_true, V_false} THEN None
         ELSE Some([variant |-> "XmlParsingBool"])
    ELSE IF UIntFromStr(RootText(d, key)[1], U32Max) # None THEN None
         ELSE Some([variant |-> "XmlParsingNumber"])

\* C12 as stated, for documents all of whose root children have text: with
\* the PARAMDEF root and a Fields container, when a required root key is
\* absent deserialize_def fails with the missing-required-field error naming
\* the first absent key in the order ParamType, DataVersion, BigEndian,
\* FormatVersion; when none is absent and a value is malformed it fails with
\* the typed parse error of a malformed value.
C12_FirstAbsentKey ==
    (DefReturned /\ IsParamdef(doc) /\ HasFields(doc) /\ Textless(doc) = {})
    => LET absent == {i \in 1..4 : KeyAbsent(doc, RequiredKeys[i])}
           malformed == {i \in (1..4) \ absent : KeyFault(doc, RequiredKeys[i]) # None}
       IN  /\ absent # {}
              => defRes = Err([variant |-> "MissingParamData",
                               arg |-> RequiredKeys[CHOOSE i \in absent :
                                                       \A j \in absent : i <= j]])
           /\ (absent = {} /\ malformed # {})
              => /\ defRes.kind = "Err"
                 /\ \E i \in malformed : defRes.err = KeyFault(doc, RequiredKeys[i])[1]

\* C12 as amended: for a document with the PARAMDEF root and a Fields
\* container, a root child without text gives the blank-element error naming
\* the first such child; otherwise, when a required root key is absent or its
\* value malformed, deserialize_def fails with the error of the first such key
\* in the order ParamType, DataVersion, BigEndian, FormatVersion (missing
\* required field naming it when absent, typed parse error when malformed).
\* No field is parsed and no definition is returned.
C12_FirstFaultyKey ==
    (DefReturned /\ IsParamdef(doc) /\ HasFields(doc))
    => IF Textless(doc) # {}
       THEN defRes = Err([variant |-> "XmlBlankElement", arg |-> FirstTextless(doc)])
       ELSE LET faulty == {i \in 1..4 : KeyFault(doc, RequiredKeys[i]) # None}
            IN  faulty # {}
                => defRes = Err(KeyFault(doc, RequiredKeys[CHOOSE i \in faulty :
                                                             \A j \in faulty : i <= j])[1])

C12_Witness ==
    /\ DefReturned /\ IsParamdef(doc) /\ HasFields(doc) /\ Textless(doc) = {}
    /\ RootText(doc, "DataVersion") = Some(V_u32over)
    /\ RootText(doc, "BigEndian") = Some(V_True)
    /\ KeyAbsent(doc, "FormatVersion")
    /\ FieldsOf(doc) = <<Field(L_overflow, <<>>)>>
    /\ defRes = Err([variant |-> "XmlParsingNumber"])

\* The optional metadata keys of a field, with the struct field each fills.
MetaField ==
    [DisplayName |-> "display_name", Enum |-> "enum_tdf",
     Description |-> "description", DisplayFormat |-> "printf_format",
     EditFlags |-> "edit_flags", Minimum |-> "minimum", Maximum |-> "maximum",
     Increment |-> "increment", SortID |-> "sort_id"]

HasText(node) == NodeText(node) # None

\* The node has children with the key's tag, and none of them has text.
BlankOnly(node, key) ==
    /\ node.kind = "element"
    /\ \E i \in 1..Len(node.children) : TagName(node.children[i]) = key
    /\ \A i \in 1..Len(node.children) :
          TagName(node.children[i]) = key => ~HasText(node.children[i])

\* The element without its children that have no text.
WithoutBlank(node) ==
    IF node.kind # "element" THEN node
    ELSE Element(node.tag, node.def, SelectSeq(node.children, HasText))

\* The document with the text-less children of every child of a Fields
\* container removed.
WithoutBlankMetadata(d) ==
    IF d.kind # "Xml" THEN d
    ELSE XmlDoc(d.root.tag,
                [i \in 1..Len(d.root.children) |->
                    IF TagName(d.root.children[i]) # "Fields" THEN d.root.children[i]
                    ELSE Element("Fields", None,
                            [j \in 1..Len(d.root.children[i].children) |->
                                WithoutBlank(d.root.children[i].children[j])])])

\* C13: in a PARAMDEF document a root child other than Fields without text
\* makes deserialize_def fail with the blank-element error naming that
\* child's tag (the first such child); a child of a Field element without
\* text is left out of the metadata: the outcome is that of the document
\* without such children, and in a returned definition the metadata value of
\* a key that only text-less children carry is absent.
C13_BlankAsymmetry ==
    (DefReturned /\ IsParamdef(doc))
    => /\ Textless(doc) # {}
          => defRes = Err([variant |-> "XmlBlankElement", arg |-> FirstTextless(doc)])
       /\ defRes = deserialize_def(WithoutBlankMetadata(doc))
       /\ defRes.kind = "Ok"
          => \A i \in 1..Len(FieldsOf(doc)) : \A key \in DOMAIN MetaField :
                BlankOnly(FieldsOf(doc)[i], key)
                => defRes.val.fields[i][MetaField[key]] = None

C13_Witness ==
    /\ DefReturned /\ IsParamdef(doc) /\ defRes.kind = "Ok"
    /\ \E i \in 1..Len(FieldsOf(doc)) :
          /\ BlankOnly(FieldsOf(doc)[i], "Minimum")
          /\ BlankOnly(FieldsOf(doc)[i], "Description")
          /\ defRes.val.fields[i].minimum = None
          /\ defRes.val.fields[i].description = None

\* C14: in every definition deserialize_def returns, string_format is UTF16
\* exactly when endian is Big and ShiftJIS exactly when endian is Little;
\* both follow the text of the root key BigEndian, and no other root key
\* (the type, the versions, a Unicode child) changes string_format.
C14_FormatFollowsBigEndian ==
    (DefReturned /\ defRes.kind = "Ok")
    => /\ defRes.val.string_format = "UTF16" <=> defRes.val.endian = "Big"
       /\ defRes.val.string_format = "ShiftJIS" <=> defRes.val.endian = "Little"
       /\ defRes.val.string_format \in {"UTF16", "ShiftJIS"}
       /\ defRes.val.string_format = "UTF16" <=> RootText(doc, "BigEndian") = Some(V_true)

C14_Witness ==
    /\ DefReturned /\ defRes.kind = "Ok"
    /\ RootText(doc, "BigEndian") = Some(V_false)
    /\ RootText(doc, "Unicode") = Some(V_true)
    /\ RootText(doc, "FormatVersion") = Some(<<"1">>)
    /\ defRes.val.endian = "Little"
    /\ defRes.val.string_format = "ShiftJIS"

----------------------------------------------------------------------------
(* Claims about the registry                                               *)

\* C1: in deserialize_all a document that fails to parse does not abort the
\* parsing of its siblings: every document of the batch is parsed.
C1_EveryDocumentParsed ==
    batchRes.result.kind # "Pending" => batchRes.parsed = Len(batch)

\* The last definition of a history with the key, if any.
LastWith(history, key) ==
    LET at == {i \in 1..Len(history) : history[i].param_type = key}
    IN  IF at = {} THEN None
        ELSE Some(history[CHOOSE i \in at : \A j \in at : j <= i])

\* The definitions of the documents of a successful batch, in input order.
BatchDefs ==
    IF batchRes.result.kind = "Ok"
    THEN [i \in 1..Len(batch) |-> deserialize_def(batch[i]).val]
    ELSE <<>>

\* C3: Paramdex is a last-inserted-wins map keyed by param_type:
\* get_param_def returns the most recent definition inserted under the key
\* (None if there was none), insert returns the definition it displaced and
\* leaves the other keys alone, and a successful deserialize_all holds for
\* each key the definition of the last document with that key.
C3_LastInsertedWins ==
    LET batchDefs == BatchDefs
        history == batchDefs \o inserted
    IN  /\ InHand => \A k \in Keys : get_param_def(definitions, k) = LastWith(history, k)
        /\ ret.op = "get" => ret.val = LastWith(history, ret.key)
        /\ ret.op = "insert" =>
              /\ ret.key = inserted[Len(inserted)].param_type
              /\ ret.val = LastWith(SubSeq(history, 1, Len(history) - 1), ret.key)
              /\ \A k \in Keys \ {ret.key} : MapGet(definitions, k) = MapGet(ret.before, k)
        /\ batchRes.result.kind = "Ok" =>
              \A k \in Keys : MapGet(batchRes.result.val, k) = LastWith(batchDefs, k)

C3_Witness ==
    /\ batchRes.result.kind = "Ok" /\ Len(batch) >= 2
    /\ batch[1] # batch[2]
    /\ deserialize_def(batch[1]).val.param_type = deserialize_def(batch[2]).val.param_type
    /\ ret.op = "insert" /\ ret.val # None
    /\ ret.val[1] # inserted[Len(inserted)]

=============================================================================
